---- MODULE Spec2Model ----
(***************************************************************************)
(* Attestation validation and aggregate-bucket update of the oracle server *)
(* (src/bin/server/attestations/mod.rs).                                   *)
(*                                                                         *)
(* Every request is one run of post_oracle_message.  A request is split    *)
(* into steps at its database operations (the .await points): the value    *)
(* row INSERT, each interval row INSERT, each bucket SELECT and each       *)
(* bucket INSERT/UPDATE.  Steps of different requests interleave freely.   *)
(*                                                                         *)
(* The BLS signature group is modelled by the additive group Z_Q: a secret *)
(* key is a scalar, the public key is sk*G, the signature of a digest is   *)
(* sk*H(digest), and verification is the pairing equation                  *)
(* e(sig, G) = e(H(digest), pk) with e(a, b) = a*b mod Q.                  *)
(***************************************************************************)
EXTENDS Integers, Sequences, FiniteSets, Bags, TLC

(***************************************************************************)
(* Bounds of the model.                                                    *)
(***************************************************************************)
NumRequests == 2
MaxClaims == 2

(***************************************************************************)
(* The signature group (crate bls).                                        *)
(***************************************************************************)
Q == 13
G == 3

Points == 0 .. (Q - 1)

Validators == {"A", "B"}

SecretKey(v) == IF v = "A" THEN 2 ELSE 5

PublicKeyOf(v) == (SecretKey(v) * G) % Q

PublicKeys == {PublicKeyOf(v) : v \in Validators}

\* AggregateSignature::infinity(): the identity element.
Infinity == 0

\* The group operation.
PointAdd(a, b) == (a + b) % Q

\* A merge that adds a signature only when the aggregate is not that signature.
AddAssign_idempotent(agg, sig) == IF agg = sig THEN agg ELSE PointAdd(agg, sig)

\* A merge that forgets the aggregate read from the table.
AddAssign_overwrite(agg, sig) == sig

\* AggregateSignature::add_assign: point addition in the signature group.
AddAssign(agg, sig) == PointAdd(agg, sig)

(***************************************************************************)
(* Messages and their digest.                                              *)
(***************************************************************************)
Values == {100, 101}
Slots == {5}
IntervalSizes == {10}

PriceValueMessages == [price : Values, slot_number : Slots]

IntervalInclusionMessages ==
    [value : Values, interval_size : IntervalSizes, slot_number : Slots]

\* A u64 in SSZ: eight bytes, little endian.
RECURSIVE LeBytes(_, _)
LeBytes(n, width) ==
    IF width = 0 THEN << >> ELSE <<n % 256>> \o LeBytes(n \div 256, width - 1)

IsIntervalMessage(m) == "interval_size" \in DOMAIN m

\* message.as_ssz_bytes(): the fields in declaration order, fixed width.
as_ssz_bytes(m) ==
    IF IsIntervalMessage(m)
    THEN LeBytes(m.value, 8) \o LeBytes(m.interval_size, 8) \o LeBytes(m.slot_number, 8)
    ELSE LeBytes(m.price, 8) \o LeBytes(m.slot_number, 8)

\* Sha3_256::digest: a hash of the byte string (here a polynomial hash).
RECURSIVE Sha3_256(_)
Sha3_256(bytes) ==
    IF bytes = << >> THEN 7
    ELSE (Sha3_256(Tail(bytes)) * 5 + Head(bytes) + Len(bytes)) % 251

\* A digest that does not depend on the message.
get_message_digest_fixed(m) == Sha3_256(<< >>)

get_message_digest(m) == Sha3_256(as_ssz_bytes(m))

\* Hash of the digest to a non-identity point of the signature group.
HashToPoint(digest) == (digest % (Q - 1)) + 1

\* SecretKey::sign
Sign(v, digest) == (SecretKey(v) * HashToPoint(digest)) % Q

\* A verification that looks at neither the key nor the digest.
Verify_untied(sig, pk, digest) == sig # 0

\* Signature::verify: e(sig, G) = e(H(digest), pk).
Verify(sig, pk, digest) == (sig * G) % Q = (HashToPoint(digest) * pk) % Q

\* A validator that accepts every signature.
validate_message_skip(public_key, m, signature) == TRUE

validate_message(public_key, m, signature) ==
    LET message_digest == get_message_digest(m)
    IN  Verify(signature, public_key, message_digest)

(***************************************************************************)
(* Hex and point encodings.                                                *)
(***************************************************************************)
HexDigits == <<"0", "1", "2", "3", "4", "5", "6", "7",
               "8", "9", "a", "b", "c", "d", "e", "f">>

HexValue(c) ==
    IF \E i \in 1 .. 16 : HexDigits[i] = c
    THEN (CHOOSE i \in 1 .. 16 : HexDigits[i] = c) - 1
    ELSE IF c \in {"A", "B", "C", "D", "E", "F"}
    THEN CASE c = "A" -> 10 [] c = "B" -> 11 [] c = "C" -> 12
           [] c = "D" -> 13 [] c = "E" -> 14 [] c = "F" -> 15
    ELSE -1

\* hex::encode
RECURSIVE hex_encode(_)
hex_encode(bytes) ==
    IF bytes = << >> THEN << >>
    ELSE <<HexDigits[(Head(bytes) \div 16) + 1], HexDigits[(Head(bytes) % 16) + 1]>>
         \o hex_encode(Tail(bytes))

\* hex::decode: an error on odd length or on a character that is no hex digit.
IsHexString(s) ==
    /\ Len(s) % 2 = 0
    /\ \A i \in 1 .. Len(s) : HexValue(s[i]) >= 0

RECURSIVE HexBytes(_)
HexBytes(s) ==
    IF s = << >> THEN << >>
    ELSE <<HexValue(s[1]) * 16 + HexValue(s[2])>> \o HexBytes(Tail(Tail(s)))

hex_decode(s) ==
    IF IsHexString(s) THEN [ok |-> TRUE, bytes |-> HexBytes(s)]
    ELSE [ok |-> FALSE, bytes |-> << >>]

\* AggregateSignature::serialize: the point as bytes.
Serialize(point) == <<point>>

\* AggregateSignature::deserialize: an error unless the bytes are a group element.
Deserialize(bytes) ==
    IF Len(bytes) = 1 /\ bytes[1] \in Points
    THEN [ok |-> TRUE, point |-> bytes[1]]
    ELSE [ok |-> FALSE, point |-> Infinity]

\* Signature::to_string and PublicKey::to_string: 0x-prefixed hex.
ToHexString(point) == <<"0", "x">> \o hex_encode(Serialize(point))

(***************************************************************************)
(* Submissions.  Every signature of a submission is made with the secret   *)
(* key of the submitting validator, over the claim body or over another    *)
(* body of the same type (a claim altered after signing).                  *)
(***************************************************************************)
SignedPriceValueMessages(v) ==
    {[message |-> m, signature |-> Sign(v, get_message_digest(signed))] :
        m \in {b \in PriceValueMessages : b.price = 100},
        signed \in PriceValueMessages}

SignedIntervalInclusionMessages(v) ==
    {[message |-> m, signature |-> Sign(v, get_message_digest(signed))] :
        m \in IntervalInclusionMessages, signed \in IntervalInclusionMessages}

SeqsUpTo(S, n) == UNION {[1 .. k -> S] : k \in 0 .. n}

OracleMessagesOf(v) ==
    [value_message : SignedPriceValueMessages(v),
     interval_inclusion_messages : SeqsUpTo(SignedIntervalInclusionMessages(v), MaxClaims),
     validator_public_key : {PublicKeyOf(v)}]

OracleMessages == UNION {OracleMessagesOf(v) : v \in Validators}

\* Placeholder for the message of a request that has not arrived.
NoMessage ==
    [value_message |-> [message |-> [price |-> 0, slot_number |-> 0], signature |-> Infinity],
     interval_inclusion_messages |-> << >>,
     validator_public_key |-> Infinity]

(***************************************************************************)
(* State.                                                                  *)
(***************************************************************************)
Requests == 1 .. NumRequests

\* The bucket key of an interval claim or of a bucket row.
KeyOf(x) ==
    [value |-> x.value, slot_number |-> x.slot_number, interval_size |-> x.interval_size]

Keys == {KeyOf(m) : m \in IntervalInclusionMessages}

VARIABLES
    price_value_attestations,         \* table: bag of rows
    price_interval_attestations,      \* table: bag of rows
    aggregate_interval_attestations,  \* table: bag of bucket rows
    pc,        \* per request: the await point it is suspended at
    message,   \* per request: the OracleMessage it handles
    idx,       \* per request: position of the loop of save_price_interval_attestations
    local,     \* per request: entry, new_num_validators, new_aggregate_signature
    result,    \* per request: the value post_oracle_message returned
    hist,      \* per request, history: the error kind, what the request wrote, and
               \* the database operations it issued (ops) and saw fail (failed)
    merged,    \* per key, history: the merges that returned Ok
    overlapped, \* per key, history: two merges of the key were in flight together
    probe      \* one call of validate_message on its own: arguments and verdicts

tables ==
    <<price_value_attestations, price_interval_attestations, aggregate_interval_attestations>>

vars ==
    <<price_value_attestations, price_interval_attestations, aggregate_interval_attestations,
      pc, message, idx, local, result, hist, merged, overlapped, probe>>

NoLocal == [entry |-> {}, new_num_validators |-> 0, new_aggregate_signature |-> << >>]

NoHist ==
    [err |-> "none", value_rows |-> 0, interval_rows |-> 0, merges |-> 0, touched |-> {},
     ops |-> 0, failed |-> 0]

NoMerges == [count |-> 0, sum |-> Infinity, pks |-> Infinity]

\* The messages validate_message is instantiated with.
Messages == PriceValueMessages \cup IntervalInclusionMessages

\* A validator signed the message `signed`; validate_message is given the
\* validator's public key, the message m and the signature moved by delta.
Probes ==
    {[validator |-> v, public_key |-> PublicKeyOf(v), signed |-> ms, m |-> m, delta |-> d,
      signature |-> PointAdd(Sign(v, get_message_digest(ms)), d),
      done |-> FALSE, verdict_signed |-> FALSE, verdict |-> FALSE] :
        v \in Validators, ms \in Messages, m \in Messages, d \in Points}

NoProbe == CHOOSE p \in Probes : p.validator = "A" /\ p.m = p.signed /\ p.delta = 0

InitRequests ==
    /\ pc = [r \in Requests |-> "idle"]
    /\ message = [r \in Requests |-> NoMessage]
    /\ idx = [r \in Requests |-> 0]
    /\ local = [r \in Requests |-> NoLocal]
    /\ result = [r \in Requests |-> "none"]
    /\ hist = [r \in Requests |-> NoHist]
    /\ merged = [k \in Keys |-> NoMerges]
    /\ overlapped = [k \in Keys |-> FALSE]
    /\ probe = NoProbe

Init ==
    /\ price_value_attestations = EmptyBag
    /\ price_interval_attestations = EmptyBag
    /\ aggregate_interval_attestations = EmptyBag
    /\ InitRequests

(***************************************************************************)
(* The tables.                                                             *)
(***************************************************************************)
\* An INSERT that replaces the rows of the table.
InsertRow_replace(table, row) == SetToBag({row})

\* INSERT INTO table VALUES (row)
InsertRow(table, row) == table (+) SetToBag({row})

\* SELECT ... WHERE interval_size = ?1 AND slot_number = ?2 AND value = ?3
SelectBuckets(table, key) == {rw \in BagToSet(table) : KeyOf(rw) = key}

\* A bucket table without a unique key.
UniqueKeyViolation_none(table, row) == FALSE

\* The composite unique key of the bucket table.
UniqueKeyViolation(table, row) == SelectBuckets(table, KeyOf(row)) # {}

\* An UPDATE without its WHERE clause.
SetBucket_every_row(rw, key, num_validators, aggregate_signature) ==
    [rw EXCEPT !.num_validators = num_validators,
               !.aggregate_signature = aggregate_signature]

\* An UPDATE that sets the count and leaves the stored aggregate.
SetBucket_count_only(rw, key, num_validators, aggregate_signature) ==
    IF KeyOf(rw) = key THEN [rw EXCEPT !.num_validators = num_validators] ELSE rw

\* The SET clause of the UPDATE, applied to one row.
SetBucket(rw, key, num_validators, aggregate_signature) ==
    IF KeyOf(rw) = key
    THEN [rw EXCEPT !.num_validators = num_validators,
                    !.aggregate_signature = aggregate_signature]
    ELSE rw

RECURSIVE SumCopies(_, _)
SumCopies(rows, table) ==
    IF rows = {} THEN 0
    ELSE LET rw == CHOOSE x \in rows : TRUE
         IN  CopiesIn(rw, table) + SumCopies(rows \ {rw}, table)

\* UPDATE ... SET num_validators = ?1, aggregate_signature = ?2 WHERE <key>
UpdateBuckets(table, key, num_validators, aggregate_signature) ==
    LET Upd(rw) == SetBucket(rw, key, num_validators, aggregate_signature)
        rows == {Upd(rw) : rw \in BagToSet(table)}
    IN  [x \in rows |-> SumCopies({rw \in BagToSet(table) : Upd(rw) = x}, table)]

(***************************************************************************)
(* Steps of a request.  db_ok says whether the step's database operation   *)
(* succeeds (FALSE: the driver returns an error).                          *)
(***************************************************************************)
\* The history of request r after an error of the given kind: a failed
\* validation issues no database operation, a storage failure is an operation
\* that failed, a malformed stored signature is a SELECT that succeeded.
Failed(r, kind) ==
    [hist EXCEPT ![r].err = kind,
                 ![r].ops = @ + (IF kind = "InvalidSignature" THEN 0 ELSE 1),
                 ![r].failed = @ + (IF kind = "StorageFailure" THEN 1 ELSE 0)]

\* An error that is dropped: the request ends with Ok(()).
Reject_swallow(r, kind) ==
    /\ pc' = [pc EXCEPT ![r] = "done"]
    /\ result' = [result EXCEPT ![r] = "Ok"]
    /\ hist' = Failed(r, kind)

\* A `?` that leaves post_oracle_message with Err(BAD_REQUEST).
Reject(r, kind) ==
    /\ pc' = [pc EXCEPT ![r] = "done"]
    /\ result' = [result EXCEPT ![r] = "BAD_REQUEST"]
    /\ hist' = Failed(r, kind)

\* A loop that stops one claim early.
save_price_interval_attestations_short(r, m, i) ==
    /\ idx' = [idx EXCEPT ![r] = i]
    /\ IF i >= Len(m.interval_inclusion_messages)
       THEN /\ pc' = [pc EXCEPT ![r] = "done"]
            /\ result' = [result EXCEPT ![r] = "Ok"]
       ELSE /\ pc' = [pc EXCEPT ![r] = "save_interval"]
            /\ UNCHANGED result

\* The loop of save_price_interval_attestations at position i, and the
\* Ok(()) of post_oracle_message after the last claim.
save_price_interval_attestations(r, m, i) ==
    /\ idx' = [idx EXCEPT ![r] = i]
    /\ IF i > Len(m.interval_inclusion_messages)
       THEN /\ pc' = [pc EXCEPT ![r] = "done"]
            /\ result' = [result EXCEPT ![r] = "Ok"]
       ELSE /\ pc' = [pc EXCEPT ![r] = "save_interval"]
            /\ UNCHANGED result

PriceValueEntry(m) ==
    [validator_public_key |-> ToHexString(m.validator_public_key),
     value |-> m.value_message.message.price,
     slot_number |-> m.value_message.message.slot_number,
     signature |-> ToHexString(m.value_message.signature)]

\* A save that inserts the value row without validating the claim.
save_price_value_attestation_unchecked(r, m, db_ok) ==
    IF ~db_ok
    THEN /\ Reject(r, "StorageFailure")
         /\ UNCHANGED <<price_value_attestations, idx>>
    ELSE /\ price_value_attestations' =
                InsertRow(price_value_attestations, PriceValueEntry(m))
         /\ hist' = [hist EXCEPT ![r].value_rows = 1, ![r].ops = @ + 1]
         /\ save_price_interval_attestations(r, m, 1)

\* Validation and row INSERT of save_price_value_attestation; on success
\* post_oracle_message goes on to the interval claims.
save_price_value_attestation(r, m, db_ok) ==
    IF ~validate_message(m.validator_public_key, m.value_message.message,
                         m.value_message.signature)
    THEN /\ Reject(r, "InvalidSignature")
         /\ UNCHANGED <<price_value_attestations, idx>>
    ELSE IF ~db_ok
    THEN /\ Reject(r, "StorageFailure")
         /\ UNCHANGED <<price_value_attestations, idx>>
    ELSE /\ price_value_attestations' =
                InsertRow(price_value_attestations, PriceValueEntry(m))
         /\ hist' = [hist EXCEPT ![r].value_rows = 1, ![r].ops = @ + 1]
         /\ save_price_interval_attestations(r, m, 1)

\* A request arrives and runs up to its first database operation.
post_oracle_message(r, m) ==
    /\ pc[r] = "idle"
    /\ message' = [message EXCEPT ![r] = m]
    /\ \E db_ok \in BOOLEAN : save_price_value_attestation(r, m, db_ok)
    /\ UNCHANGED <<price_interval_attestations, aggregate_interval_attestations,
                   local, merged, overlapped, probe>>

PriceIntervalEntry(public_key, claim) ==
    [validator_public_key |-> ToHexString(public_key),
     value |-> claim.message.value,
     slot_number |-> claim.message.slot_number,
     signature |-> ToHexString(claim.signature),
     interval_size |-> claim.message.interval_size]

\* The claim the request is working on.
Claim(r) == message[r].interval_inclusion_messages[idx[r]]

\* Validation and row INSERT of save_price_interval_attestation.
\* A save that goes on to the merge although the row INSERT failed.
save_price_interval_attestation_unordered(r, db_ok) ==
    /\ pc[r] = "save_interval"
    /\ IF ~validate_message(message[r].validator_public_key, Claim(r).message,
                            Claim(r).signature)
       THEN /\ Reject(r, "InvalidSignature")
            /\ UNCHANGED price_interval_attestations
       ELSE /\ price_interval_attestations' =
                   IF db_ok
                   THEN InsertRow(price_interval_attestations,
                                  PriceIntervalEntry(message[r].validator_public_key, Claim(r)))
                   ELSE price_interval_attestations
            /\ hist' = [hist EXCEPT ![r].interval_rows = @ + (IF db_ok THEN 1 ELSE 0),
                                     ![r].ops = @ + 1]
            /\ pc' = [pc EXCEPT ![r] = "select"]
            /\ UNCHANGED result
    /\ UNCHANGED <<price_value_attestations, aggregate_interval_attestations,
                   message, idx, local, merged, overlapped, probe>>

\* Validation and row INSERT of one interval claim; on success the merge follows.
save_price_interval_attestation(r, db_ok) ==
    /\ pc[r] = "save_interval"
    /\ IF ~validate_message(message[r].validator_public_key, Claim(r).message,
                            Claim(r).signature)
       THEN /\ Reject(r, "InvalidSignature")
            /\ UNCHANGED price_interval_attestations
       ELSE IF ~db_ok
       THEN /\ Reject(r, "StorageFailure")
            /\ UNCHANGED price_interval_attestations
       ELSE /\ price_interval_attestations' =
                   InsertRow(price_interval_attestations,
                             PriceIntervalEntry(message[r].validator_public_key, Claim(r)))
            /\ hist' = [hist EXCEPT ![r].interval_rows = @ + 1, ![r].ops = @ + 1]
            /\ pc' = [pc EXCEPT ![r] = "select"]
            /\ UNCHANGED result
    /\ UNCHANGED <<price_value_attestations, aggregate_interval_attestations,
                   message, idx, local, merged, overlapped, probe>>

\* A decoding that takes an undecodable aggregate for the identity.
DecodeEntry_lenient(entry) == [ok |-> TRUE, point |-> Infinity]

\* Some(entry): the stored aggregate decoded, or the decoding error.
DecodeEntry(entry) ==
    LET bytes == hex_decode(entry.aggregate_signature)
    IN  IF ~bytes.ok THEN [ok |-> FALSE, point |-> Infinity]
        ELSE Deserialize(bytes.bytes)

\* A read that takes over the stored count as it is.
ReadBucket_no_increment(found) ==
    IF found = {} THEN <<1, Infinity>>
    ELSE LET entry == CHOOSE e \in found : TRUE
         IN  <<entry.num_validators, DecodeEntry(entry).point>>

\* (new_num_validators, aggregate_signature) before add_assign.
ReadBucket(found) ==
    IF found = {} THEN <<1, Infinity>>
    ELSE LET entry == CHOOSE e \in found : TRUE
         IN  <<entry.num_validators + 1, DecodeEntry(entry).point>>

\* Another request is between the SELECT and the write of a merge of key.
MergeInFlight(r, key) ==
    \E o \in Requests \ {r} :
        /\ pc[o] = "write"
        /\ KeyOf(message[o].interval_inclusion_messages[idx[o]].message) = key

\* extend_or_create_aggregate_interval_attestation up to the SELECT's result.
extend_or_create_select(r, db_ok) ==
    LET key == KeyOf(Claim(r).message)
        rows == SelectBuckets(aggregate_interval_attestations, key)
    IN  /\ pc[r] = "select"
        /\ IF ~db_ok
           THEN /\ Reject(r, "StorageFailure")
                /\ UNCHANGED <<local, overlapped>>
           ELSE \E found \in (IF rows = {} THEN {{}} ELSE {{e} : e \in rows}) :
                IF found # {} /\ ~DecodeEntry(CHOOSE e \in found : TRUE).ok
                THEN /\ Reject(r, "MalformedStoredSignature")
                     /\ UNCHANGED <<local, overlapped>>
                ELSE /\ local' = [local EXCEPT ![r] =
                            [entry |-> found,
                             new_num_validators |-> ReadBucket(found)[1],
                             new_aggregate_signature |->
                                 hex_encode(Serialize(
                                     AddAssign(ReadBucket(found)[2], Claim(r).signature)))]]
                     /\ overlapped' =
                            [overlapped EXCEPT ![key] = @ \/ MergeInFlight(r, key)]
                     /\ pc' = [pc EXCEPT ![r] = "write"]
                     /\ hist' = [hist EXCEPT ![r].ops = @ + 1]
                     /\ UNCHANGED result
        /\ UNCHANGED <<tables, message, idx, merged, probe>>

\* A merge that never inserts.
IsInsert_never(new_num_validators) == FALSE

\* The test that picks INSERT over UPDATE.
IsInsert(new_num_validators) == new_num_validators = 1

AggregatePriceIntervalEntry(key, num_validators, aggregate_signature) ==
    [value |-> key.value,
     slot_number |-> key.slot_number,
     aggregate_signature |-> aggregate_signature,
     interval_size |-> key.interval_size,
     num_validators |-> num_validators]

\* The table after the INSERT or UPDATE of a merge.
WriteBucket(table, key, new_num_validators, new_aggregate_signature) ==
    IF IsInsert(new_num_validators)
    THEN InsertRow(table,
             AggregatePriceIntervalEntry(key, new_num_validators, new_aggregate_signature))
    ELSE UpdateBuckets(table, key, new_num_validators, new_aggregate_signature)

\* extend_or_create_aggregate_interval_attestation from the INSERT or UPDATE on.
extend_or_create_write(r, db_ok) ==
    LET key == KeyOf(Claim(r).message)
        n == local[r].new_num_validators
        sig == local[r].new_aggregate_signature
        violation ==
            /\ IsInsert(n)
            /\ UniqueKeyViolation(aggregate_interval_attestations,
                                  AggregatePriceIntervalEntry(key, n, sig))
    IN  /\ pc[r] = "write"
        /\ IF ~db_ok \/ violation
           THEN /\ Reject(r, "StorageFailure")
                /\ UNCHANGED <<aggregate_interval_attestations, idx, merged>>
           ELSE /\ aggregate_interval_attestations' =
                       WriteBucket(aggregate_interval_attestations, key, n, sig)
                /\ hist' = [hist EXCEPT ![r].merges = @ + 1,
                                         ![r].touched = @ \cup {key},
                                         ![r].ops = @ + 1]
                /\ merged' = [merged EXCEPT ![key] =
                       [count |-> @.count + 1,
                        sum |-> PointAdd(@.sum, Claim(r).signature),
                        pks |-> PointAdd(@.pks, message[r].validator_public_key)]]
                /\ save_price_interval_attestations(r, message[r], idx[r] + 1)
        /\ UNCHANGED <<price_value_attestations, price_interval_attestations,
                       message, local, overlapped, probe>>

Next ==
    \/ \E r \in Requests, m \in OracleMessages : post_oracle_message(r, m)
    \/ \E r \in Requests, db_ok \in BOOLEAN : save_price_interval_attestation(r, db_ok)
    \/ \E r \in Requests, db_ok \in BOOLEAN : extend_or_create_select(r, db_ok)
    \/ \E r \in Requests, db_ok \in BOOLEAN : extend_or_create_write(r, db_ok)

Spec == Init /\ [][Next]_vars

(***************************************************************************)
(* The server started on a database that already holds a bucket whose      *)
(* aggregate_signature does not decode: odd length, a character that is    *)
(* no hex digit, a byte string that is no group element, a wrong length.   *)
(***************************************************************************)
MalformedSignatures ==
    {<<"0">>, <<"z", "z">>, <<"f", "f">>, <<"0", "4", "0", "4">>}

StoredKey == CHOOSE k \in Keys : k.value = 100

InitStored ==
    /\ price_value_attestations = EmptyBag
    /\ price_interval_attestations = EmptyBag
    /\ \E s \in MalformedSignatures :
          aggregate_interval_attestations =
              SetToBag({AggregatePriceIntervalEntry(StoredKey, 1, s)})
    /\ InitRequests

SpecStored == InitStored /\ [][Next]_vars

(***************************************************************************)
(* Definitions the properties are stated with.                             *)
(***************************************************************************)
\* The bucket rows stored for a key.
Bucket(k) == SelectBuckets(aggregate_interval_attestations, k)

\* sig is the signature of the owner of pk over the digest of m.
Genuine(pk, m, sig) ==
    \E v \in Validators : PublicKeyOf(v) = pk /\ sig = Sign(v, get_message_digest(m))

GenuineValue(m) ==
    Genuine(m.validator_public_key, m.value_message.message, m.value_message.signature)

GenuineInterval(m, i) ==
    Genuine(m.validator_public_key, m.interval_inclusion_messages[i].message,
            m.interval_inclusion_messages[i].signature)

NumClaims(m) == Len(m.interval_inclusion_messages)

\* The first interval claim that does not verify, 0 when all verify.
FirstInvalid(m) ==
    IF \A i \in 1 .. NumClaims(m) : GenuineInterval(m, i) THEN 0
    ELSE CHOOSE i \in 1 .. NumClaims(m) :
            /\ ~GenuineInterval(m, i)
            /\ \A j \in 1 .. (i - 1) : GenuineInterval(m, j)

ClaimKey(m, i) == KeyOf(m.interval_inclusion_messages[i].message)

\* Aggregate verification of agg against the sum of the signers' public keys.
FastAggregateVerify(agg, pks, digest) == (agg * G) % Q = (HashToPoint(digest) * pks) % Q

\* The write step of a merge of request r succeeds in this step.
MergeWritten(r) == pc[r] = "write" /\ hist'[r].merges = hist[r].merges + 1

(***************************************************************************)
(* C1.  Concurrent merges of one key lose no update: whenever no merge of  *)
(* a key is in flight, the key's bucket counts every merge of the key      *)
(* that returned Ok (and there is no bucket when there was none).          *)
(***************************************************************************)
C1_NoLostUpdate ==
    \A k \in Keys :
        (\A r \in Requests : ~(pc[r] = "write" /\ ClaimKey(message[r], idx[r]) = k))
        => IF merged[k].count = 0 THEN Bucket(k) = {}
           ELSE \E e \in Bucket(k) : e.num_validators = merged[k].count

(***************************************************************************)
(* C2.  After n >= 1 successful merges of one key, none of which           *)
(* overlapped another, starting from no bucket, the key has one bucket,    *)
(* its num_validators is n, and its aggregate_signature decodes to the     *)
(* group sum of the n signatures, which verifies against the n public      *)
(* keys and the digest of the key.                                         *)
(***************************************************************************)
C2_SequentialMerges ==
    \A k \in Keys :
        (~overlapped[k] /\ merged[k].count >= 1)
        => /\ Cardinality(Bucket(k)) = 1
           /\ \A e \in Bucket(k) :
                /\ CopiesIn(e, aggregate_interval_attestations) = 1
                /\ e.num_validators = merged[k].count
                /\ IsHexString(e.aggregate_signature)
                /\ HexBytes(e.aggregate_signature) = Serialize(merged[k].sum)
                /\ FastAggregateVerify(HexBytes(e.aggregate_signature)[1],
                                       merged[k].pks, get_message_digest(k))

C2_Witness ==
    \E k \in Keys :
        /\ ~overlapped[k]
        /\ merged[k].count = 2
        /\ merged[k].pks = PointAdd(PublicKeyOf("A"), PublicKeyOf("B"))
        /\ \E e \in Bucket(k) : e.num_validators = 2

(***************************************************************************)
(* C3.  A bucket, once stored, is never removed, and its num_validators    *)
(* never decreases from one state to the next.                             *)
(***************************************************************************)
C3_CountMonotone ==
    [][\A k \in Keys :
          Bucket(k) # {}
          => /\ Bucket(k)' # {}
             /\ \A e \in Bucket(k), f \in Bucket(k)' :
                    f.num_validators >= e.num_validators]_vars

(***************************************************************************)
(* C4.  A merge whose write finds no bucket stored for its key leaves      *)
(* exactly one bucket for the key, with num_validators 1 and an            *)
(* aggregate_signature that is the encoding of the claim's signature.      *)
(***************************************************************************)
C4_CreateOnAbsent ==
    [][\A r \in Requests :
          (MergeWritten(r) /\ Bucket(ClaimKey(message[r], idx[r])) = {})
          => LET k == ClaimKey(message[r], idx[r])
                 row == AggregatePriceIntervalEntry(
                            k, 1, hex_encode(Serialize(Claim(r).signature)))
             IN  /\ SelectBuckets(aggregate_interval_attestations', k) = {row}
                 /\ CopiesIn(row, aggregate_interval_attestations') = 1]_vars

C4_Witness ==
    \E r \in Requests :
        /\ hist[r].merges = 1
        /\ pc[r] # "write"
        /\ local[r].entry = {}
        /\ Bucket(ClaimKey(message[r], 1)) =
               {AggregatePriceIntervalEntry(
                    ClaimKey(message[r], 1), 1,
                    hex_encode(Serialize(message[r].interval_inclusion_messages[1].signature)))}

(***************************************************************************)
(* C5.  A merge of signature s that is not interleaved with another write  *)
(* of its key (the bucket it read, (n, S), is the bucket stored when it    *)
(* writes) leaves the bucket as (n + 1, S + s).                            *)
(***************************************************************************)
C5_MergeIntoPresent ==
    [][\A r \in Requests :
          (/\ MergeWritten(r)
           /\ local[r].entry # {}
           /\ Bucket(ClaimKey(message[r], idx[r])) = local[r].entry)
          => \A e \in local[r].entry :
                /\ IsHexString(e.aggregate_signature)
                /\ SelectBuckets(aggregate_interval_attestations',
                                 ClaimKey(message[r], idx[r])) =
                      {[e EXCEPT
                          !.num_validators = e.num_validators + 1,
                          !.aggregate_signature =
                              hex_encode(Serialize(PointAdd(
                                  HexBytes(e.aggregate_signature)[1],
                                  Claim(r).signature)))]}]_vars

C5_Witness ==
    \E a, b \in Requests :
        /\ pc[a] = "done" /\ result[a] = "Ok" /\ NumClaims(message[a]) = 1
        /\ pc[b] = "done" /\ result[b] = "Ok" /\ NumClaims(message[b]) = 1
        /\ message[a].validator_public_key = PublicKeyOf("A")
        /\ message[b].validator_public_key = PublicKeyOf("B")
        /\ ClaimKey(message[a], 1) = ClaimKey(message[b], 1)
        /\ local[a].entry = {}
        /\ local[b].entry # {}
        /\ Bucket(ClaimKey(message[a], 1)) =
              {AggregatePriceIntervalEntry(
                   ClaimKey(message[a], 1), 2,
                   hex_encode(Serialize(PointAdd(
                       message[a].interval_inclusion_messages[1].signature,
                       message[b].interval_inclusion_messages[1].signature))))}

(***************************************************************************)
(* C6.  A request whose value claim does not verify is rejected and        *)
(* writes nothing: no value row, no interval row, no bucket, whether or    *)
(* not its interval claims verify.                                         *)
(***************************************************************************)
C6_InvalidValueWritesNothing ==
    \A r \in Requests :
        (pc[r] # "idle" /\ ~GenuineValue(message[r]))
        => /\ pc[r] = "done"
           /\ result[r] = "BAD_REQUEST"
           /\ hist[r].value_rows = 0
           /\ hist[r].interval_rows = 0
           /\ hist[r].merges = 0
           /\ hist[r].touched = {}
           /\ ~BagIn(PriceValueEntry(message[r]), price_value_attestations)

C6_Witness ==
    \E r \in Requests :
        /\ pc[r] = "done"
        /\ result[r] = "BAD_REQUEST"
        /\ ~GenuineValue(message[r])
        /\ NumClaims(message[r]) = 2
        /\ FirstInvalid(message[r]) = 0

\* The interval rows request r wrote are the rows of its first claims.
WrittenRows(r) ==
    {PriceIntervalEntry(message[r].validator_public_key,
                        message[r].interval_inclusion_messages[j]) :
        j \in 1 .. hist[r].interval_rows}

(***************************************************************************)
(* C7.  When interval claim i is the first of a request that does not      *)
(* verify, the request is rejected and claims i, i+1, ... write no row     *)
(* and merge nothing; when the request fails at that claim, the value row  *)
(* and the rows and merges of claims 1 .. i-1 have been written and are    *)
(* still stored.                                                           *)
(***************************************************************************)
C7_FirstInvalidInterval ==
    \A r \in Requests :
        (pc[r] # "idle" /\ GenuineValue(message[r]) /\ FirstInvalid(message[r]) > 0)
        => LET i == FirstInvalid(message[r])
           IN  /\ hist[r].interval_rows <= i - 1
               /\ hist[r].merges <= i - 1
               /\ pc[r] = "done" => result[r] = "BAD_REQUEST"
               /\ (pc[r] = "done" /\ hist[r].err = "InvalidSignature")
                  => /\ idx[r] = i
                     /\ hist[r].value_rows = 1
                     /\ hist[r].interval_rows = i - 1
                     /\ hist[r].merges = i - 1
                     /\ BagIn(PriceValueEntry(message[r]), price_value_attestations)
                     /\ \A row \in WrittenRows(r) :
                            BagIn(row, price_interval_attestations)
                     /\ \A j \in 1 .. (i - 1) : Bucket(ClaimKey(message[r], j)) # {}

C7_Witness ==
    \E r \in Requests :
        /\ pc[r] = "done"
        /\ hist[r].err = "InvalidSignature"
        /\ FirstInvalid(message[r]) = 2
        /\ hist[r].interval_rows = 1
        /\ hist[r].merges = 1

C9_MalformedIsError ==
    [][\A k \in Keys :
          (\E e \in Bucket(k) : e.aggregate_signature \in MalformedSignatures)
          => /\ SelectBuckets(aggregate_interval_attestations', k) = Bucket(k)
             /\ \A e \in Bucket(k) :
                    CopiesIn(e, aggregate_interval_attestations') =
                        CopiesIn(e, aggregate_interval_attestations)
             /\ \A r \in Requests :
                    (/\ pc[r] = "select"
                     /\ ClaimKey(message[r], idx[r]) = k
                     /\ pc'[r] # "select")
                    => /\ pc'[r] = "done"
                       /\ result'[r] = "BAD_REQUEST"
                       /\ hist'[r].merges = hist[r].merges]_vars

C9_Witness ==
    \E r \in Requests :
        /\ pc[r] = "done"
        /\ result[r] = "BAD_REQUEST"
        /\ hist[r].err = "MalformedStoredSignature"
        /\ \E e \in Bucket(ClaimKey(message[r], idx[r])) :
              /\ e.aggregate_signature \in MalformedSignatures
              /\ e.num_validators = 1

(***************************************************************************)
(* C10.  A finished request returned Ok exactly when its value claim and   *)
(* all its interval claims verify and no database step of it failed; and   *)
(* a request that returned Ok wrote one value row, one interval row per    *)
(* interval claim and one bucket merge per interval claim.                 *)
(***************************************************************************)
C10_SuccessIff ==
    \A r \in Requests :
        pc[r] = "done"
        => /\ result[r] = "Ok"
              <=> /\ GenuineValue(message[r])
                  /\ FirstInvalid(message[r]) = 0
                  /\ hist[r].err \notin {"StorageFailure", "MalformedStoredSignature"}
           /\ result[r] = "Ok"
              => /\ hist[r].value_rows = 1
                 /\ hist[r].interval_rows = NumClaims(message[r])
                 /\ hist[r].merges = NumClaims(message[r])
                 /\ BagIn(PriceValueEntry(message[r]), price_value_attestations)
                 /\ \A row \in WrittenRows(r) : BagIn(row, price_interval_attestations)

C10_Witness ==
    \E r \in Requests :
        /\ pc[r] = "done"
        /\ result[r] = "Ok"
        /\ NumClaims(message[r]) = 2
        /\ hist[r].merges = 2

(***************************************************************************)
(* C11.  A database operation that fails is issued once and is the last    *)
(* operation of its request: the failing step writes nothing and ends the  *)
(* request with BAD_REQUEST, and afterwards the request issues no          *)
(* operation, retries nothing and keeps its result.                        *)
(***************************************************************************)
C11_FailureIsFinal ==
    [][\A r \in Requests :
          /\ hist'[r].failed > hist[r].failed
             => /\ hist'[r].failed = 1
                /\ hist'[r].ops = hist[r].ops + 1
                /\ tables' = tables
                /\ pc'[r] = "done"
                /\ result'[r] = "BAD_REQUEST"
          /\ hist[r].failed >= 1
             => /\ hist'[r] = hist[r]
                /\ pc'[r] = "done"
                /\ result'[r] = "BAD_REQUEST"]_vars

C11_Witness ==
    \E r \in Requests :
        /\ hist[r].failed = 1
        /\ hist[r].err = "StorageFailure"
        /\ hist[r].merges = 1
        /\ hist[r].interval_rows = 2
        /\ hist[r].ops = 6
        /\ result[r] = "BAD_REQUEST"
        /\ \E o \in Requests \ {r} : pc[o] = "done" /\ hist[o].ops > 0

\* The next step of a merge of request r, with a database that answers.
Step(r) ==
    CASE pc[r] = "select" -> extend_or_create_select(r, TRUE)
      [] pc[r] = "write" -> extend_or_create_write(r, TRUE)

\* Requests a and b are both in a merge, of different keys, and b is between
\* its SELECT and its write.
MergingDistinctKeys(a, b) ==
    /\ a # b
    /\ pc[a] \in {"select", "write"}
    /\ pc[b] = "write"
    /\ ClaimKey(message[a], idx[a]) # ClaimKey(message[b], idx[b])

\* The number of merges request r performs when no database operation fails.
Performed(r) ==
    IF pc[r] = "idle" \/ ~GenuineValue(message[r]) THEN 0
    ELSE IF FirstInvalid(message[r]) = 0 THEN NumClaims(message[r])
    ELSE FirstInvalid(message[r]) - 1

\* The merges of key k, as (request, claim index) pairs.
MergesOf(k) ==
    {<<r, i>> \in Requests \X (1 .. MaxClaims) :
        i <= Performed(r) /\ ClaimKey(message[r], i) = k}

RECURSIVE SumSignatures(_)
SumSignatures(merges) ==
    IF merges = {} THEN Infinity
    ELSE LET x == CHOOSE y \in merges : TRUE
         IN  PointAdd(message[x[1]].interval_inclusion_messages[x[2]].signature,
                      SumSignatures(merges \ {x}))

\* The bucket rows of key k after the merges of k run one after another.
SequentialBucket(k) ==
    IF MergesOf(k) = {} THEN {}
    ELSE {AggregatePriceIntervalEntry(
              k, Cardinality(MergesOf(k)),
              hex_encode(Serialize(SumSignatures(MergesOf(k)))))}

\* All requests have finished, no database operation failed, and no two
\* merges of one key were in flight together.
FinishedOnDistinctKeys ==
    /\ \A r \in Requests : pc[r] = "done" /\ hist[r].failed = 0
    /\ \A k \in Keys : ~overlapped[k]

(***************************************************************************)
(* C12.  A step changes the bucket of a key only when it is the write of   *)
(* a merge of that key; a merge can always take its next step while a      *)
(* merge of another key is between its SELECT and its write; and when the  *)
(* merges that ran together were all on distinct keys and no database      *)
(* operation failed, the final buckets are those of running the merges     *)
(* one after another.                                                      *)
(***************************************************************************)
C12_IndependentKeys ==
    /\ [][\A k \in Keys :
              (\/ SelectBuckets(aggregate_interval_attestations', k) # Bucket(k)
               \/ \E e \in Bucket(k) :
                     CopiesIn(e, aggregate_interval_attestations') #
                         CopiesIn(e, aggregate_interval_attestations))
              => \E r \in Requests :
                    MergeWritten(r) /\ ClaimKey(message[r], idx[r]) = k]_vars
    /\ [](\A a, b \in Requests : MergingDistinctKeys(a, b) => ENABLED Step(a))
    /\ [](FinishedOnDistinctKeys => \A k \in Keys : Bucket(k) = SequentialBucket(k))

C12_Witness ==
    /\ \A k \in Keys : ~overlapped[k] /\ Bucket(k) # {}
    /\ \E a, b \in Requests :
          /\ pc[a] = "write" /\ hist[a].merges = 1
          /\ pc[b] = "write" /\ hist[b].merges = 1
          /\ ClaimKey(message[a], idx[a]) # ClaimKey(message[b], idx[b])

\* The number of bucket rows stored for key k.
RowCount(k) == SumCopies(Bucket(k), aggregate_interval_attestations)

(***************************************************************************)
(* C13.  At most one bucket row is stored for each key (value,             *)
(* slot_number, interval_size), also after two first merges of the key     *)
(* both read it as absent.                                                 *)
(***************************************************************************)
C13_OneRowPerKey == \A k \in Keys : RowCount(k) <= 1

C13_Witness ==
    \E a, b \in Requests :
        /\ a # b
        /\ NumClaims(message[a]) = 1 /\ NumClaims(message[b]) = 1
        /\ ClaimKey(message[a], 1) = ClaimKey(message[b], 1)
        /\ local[a].entry = {} /\ local[a].new_num_validators = 1
        /\ local[b].entry = {} /\ local[b].new_num_validators = 1
        /\ pc[a] = "done" /\ result[a] = "Ok"
        /\ pc[b] = "done" /\ result[b] = "BAD_REQUEST"
        /\ hist[b].ops = 4 /\ hist[b].failed = 1
        /\ RowCount(ClaimKey(message[a], 1)) = 1

(***************************************************************************)
(* C14.  The value-attestation and interval-attestation tables only grow:  *)
(* every step, of an accepted or of a rejected request, keeps every row    *)
(* that was stored, as many times as it was stored.                        *)
(***************************************************************************)
C14_AppendOnly ==
    [][/\ price_value_attestations \sqsubseteq price_value_attestations'
       /\ price_interval_attestations \sqsubseteq price_interval_attestations']_vars

C14_Witness ==
    /\ BagCardinality(price_value_attestations) = 2
    /\ BagCardinality(price_interval_attestations) = 3
    /\ \E a, b \in Requests :
          /\ pc[a] = "done" /\ result[a] = "Ok" /\ hist[a].interval_rows = 2
          /\ pc[b] = "done" /\ result[b] = "BAD_REQUEST" /\ hist[b].interval_rows = 1

\* Requests a and b carry the same submission, of one interval claim that
\* verifies, and ran their merges one after the other without a failure.
SameSubmissionTwice(a, b) ==
    /\ a # b
    /\ pc[a] = "done" /\ pc[b] = "done"
    /\ message[a] = message[b]
    /\ NumClaims(message[a]) = 1
    /\ GenuineValue(message[a]) /\ GenuineInterval(message[a], 1)
    /\ hist[a].failed = 0 /\ hist[b].failed = 0
    /\ ~overlapped[ClaimKey(message[a], 1)]

(***************************************************************************)
(* C15.  Nothing deduplicates validators: when one validator submits the   *)
(* same valid interval claim twice in sequence, both submissions are       *)
(* accepted and stored, and the two merges raise num_validators by 2 and   *)
(* add the signature to the aggregate twice.                               *)
(***************************************************************************)
C15_NoDeduplication ==
    \A a, b \in Requests :
        SameSubmissionTwice(a, b)
        => LET k == ClaimKey(message[a], 1)
               s == message[a].interval_inclusion_messages[1].signature
           IN  /\ result[a] = "Ok" /\ result[b] = "Ok"
               /\ hist[a].merges = 1 /\ hist[b].merges = 1
               /\ CopiesIn(PriceValueEntry(message[a]), price_value_attestations) >= 2
               /\ CopiesIn(PriceIntervalEntry(message[a].validator_public_key,
                                              message[a].interval_inclusion_messages[1]),
                           price_interval_attestations) >= 2
               /\ merged[k].count = 2
                  => Bucket(k) = {AggregatePriceIntervalEntry(
                                     k, 2, hex_encode(Serialize(PointAdd(s, s))))}

C15_Witness ==
    \E a, b \in Requests :
        /\ SameSubmissionTwice(a, b)
        /\ merged[ClaimKey(message[a], 1)].count = 2
        /\ \E e \in Bucket(ClaimKey(message[a], 1)) : e.num_validators = 2

(***************************************************************************)
(* validate_message on its own: the arguments are drawn at the start, and  *)
(* the one step calls the function on what was signed and on what was      *)
(* presented.  The tables start as some requests left them.                *)
(***************************************************************************)
StoredRows ==
    {PriceValueEntry(m) : m \in {x \in OracleMessages : x.interval_inclusion_messages = << >>}}

InitValidate ==
    /\ \E rows \in SUBSET StoredRows : price_value_attestations = SetToBag(rows)
    /\ price_interval_attestations = EmptyBag
    /\ aggregate_interval_attestations = EmptyBag
    /\ pc = [r \in Requests |-> "idle"]
    /\ message = [r \in Requests |-> NoMessage]
    /\ idx = [r \in Requests |-> 0]
    /\ local = [r \in Requests |-> NoLocal]
    /\ result = [r \in Requests |-> "none"]
    /\ hist = [r \in Requests |-> NoHist]
    /\ merged = [k \in Keys |-> NoMerges]
    /\ overlapped = [k \in Keys |-> FALSE]
    /\ probe \in Probes

Validate ==
    /\ ~probe.done
    /\ probe' = [probe EXCEPT
                    !.done = TRUE,
                    !.verdict_signed =
                        validate_message(probe.public_key, probe.signed,
                                         Sign(probe.validator, get_message_digest(probe.signed))),
                    !.verdict =
                        validate_message(probe.public_key, probe.m, probe.signature)]
    /\ UNCHANGED <<tables, pc, message, idx, local, result, hist, merged, overlapped>>

NextValidate == Validate

SpecValidate == InitValidate /\ [][NextValidate]_vars

(***************************************************************************)
(* C16.  validate_message(pk, m, sig) is true when sig is the signature    *)
(* made by pk's secret key over the digest of m and false otherwise: false *)
(* when the message alone or the signature alone differs from what was     *)
(* signed, and false when both differ unless the signature presented is    *)
(* the validator's signature over the message presented.  It leaves the    *)
(* stored tables as they are.                                              *)
(***************************************************************************)
SignedByKey(p) == p.signature = Sign(p.validator, get_message_digest(p.m))

C16_ValidateMessage ==
    /\ [](probe.done
            => /\ probe.verdict_signed
               /\ probe.verdict <=> SignedByKey(probe)
               /\ (probe.m = probe.signed /\ probe.delta = 0) => probe.verdict
               /\ (probe.m # probe.signed /\ probe.delta = 0) => ~probe.verdict
               /\ (probe.m = probe.signed /\ probe.delta # 0) => ~probe.verdict)
    /\ [][probe'.done /\ ~probe.done => tables' = tables]_vars

C16_Witness ==
    /\ probe.done
    /\ probe.verdict_signed
    /\ ~probe.verdict
    /\ probe.m # probe.signed
    /\ probe.delta = 0
    /\ price_value_attestations # EmptyBag

\* The interval row of claim i of request r.
IntervalRowOf(r, i) ==
    PriceIntervalEntry(message[r].validator_public_key, message[r].interval_inclusion_messages[i])

\* The aggregate the merge of request r read: the identity when it found no bucket.
AggregateRead(r) ==
    IF local[r].entry = {} THEN Infinity
    ELSE HexBytes((CHOOSE e \in local[r].entry : TRUE).aggregate_signature)[1]

\* Every stored row is the row of a verified claim of some submission, and
\* each request is past the verification and the row INSERT of the claims
\* it is merging or has merged.
VerifiedBeforeStored ==
    /\ \A row \in BagToSet(price_value_attestations) :
          \E r \in Requests :
              /\ hist[r].value_rows = 1
              /\ GenuineValue(message[r])
              /\ row = PriceValueEntry(message[r])
    /\ \A row \in BagToSet(price_interval_attestations) :
          \E r \in Requests : \E i \in 1 .. hist[r].interval_rows :
              /\ GenuineInterval(message[r], i)
              /\ row = IntervalRowOf(r, i)
    /\ \A r \in Requests :
          /\ hist[r].interval_rows <= NumClaims(message[r])
          /\ hist[r].interval_rows > 0 => hist[r].value_rows = 1
          /\ hist[r].merges <= hist[r].interval_rows
          /\ \A i \in 1 .. hist[r].interval_rows :
                /\ GenuineInterval(message[r], i)
                /\ BagIn(IntervalRowOf(r, i), price_interval_attestations)
          /\ pc[r] \in {"select", "write"}
             => /\ hist[r].interval_rows = idx[r]
                /\ hist[r].merges = idx[r] - 1

\* A step that stores a row or writes a bucket does it for a verified claim
\* of the request that takes the step.
StoresVerifiedClaim ==
    /\ price_value_attestations' # price_value_attestations
       => \E r \in Requests :
              /\ pc[r] = "idle"
              /\ GenuineValue(message'[r])
              /\ price_value_attestations' =
                     price_value_attestations (+) SetToBag({PriceValueEntry(message'[r])})
    /\ price_interval_attestations' # price_interval_attestations
       => \E r \in Requests :
              /\ pc[r] = "save_interval"
              /\ hist[r].value_rows = 1
              /\ GenuineInterval(message[r], idx[r])
              /\ price_interval_attestations' =
                     price_interval_attestations (+) SetToBag({IntervalRowOf(r, idx[r])})
    /\ aggregate_interval_attestations' # aggregate_interval_attestations
       => \E r \in Requests :
              /\ MergeWritten(r)
              /\ GenuineInterval(message[r], idx[r])
              /\ BagIn(IntervalRowOf(r, idx[r]), price_interval_attestations)
              /\ local[r].new_aggregate_signature =
                     hex_encode(Serialize(PointAdd(AggregateRead(r), Claim(r).signature)))
              /\ \E e \in SelectBuckets(aggregate_interval_attestations',
                                         ClaimKey(message[r], idx[r])) :
                     e.aggregate_signature = local[r].new_aggregate_signature

(***************************************************************************)
(* C17.  Every attestation row ever stored and every signature ever folded *)
(* into a bucket comes from a claim that passed validate_message against   *)
(* the validator_public_key of its submission: a claim is verified before  *)
(* its row is inserted, and the row of an interval claim is inserted       *)
(* before the claim is merged into its bucket.                             *)
(***************************************************************************)
C17_VerifiedBeforeStored == [][StoresVerifiedClaim]_vars /\ []VerifiedBeforeStored

C17_Witness ==
    \E a, b \in Requests :
        /\ a # b
        /\ result[a] = "Ok" /\ hist[a].merges = 2
        /\ hist[b].err = "InvalidSignature" /\ hist[b].interval_rows = 1 /\ hist[b].merges = 1
        /\ BagCardinality(price_interval_attestations) = 3
        /\ BagCardinality(price_value_attestations) = 2

\* The statement the write step of request r issues, by the code's test.
Statement(r) == IF IsInsert(local[r].new_num_validators) THEN "INSERT" ELSE "UPDATE"

\* The bucket row the write step of request r carries.
RowToWrite(r) ==
    AggregatePriceIntervalEntry(ClaimKey(message[r], idx[r]), local[r].new_num_validators,
                                local[r].new_aggregate_signature)

\* The step added one row to the bucket table and touched no other.
Inserted(row) ==
    aggregate_interval_attestations' = aggregate_interval_attestations (+) SetToBag({row})

\* The step set the rows of the row's key to the row and added none.
Updated(row) ==
    /\ BagCardinality(aggregate_interval_attestations') =
          BagCardinality(aggregate_interval_attestations)
    /\ SelectBuckets(aggregate_interval_attestations', KeyOf(row)) = {row}
    /\ \A k \in Keys \ {KeyOf(row)} :
          SelectBuckets(aggregate_interval_attestations', k) =
             SelectBuckets(aggregate_interval_attestations, k)

(***************************************************************************)
(* C18.  A merge writes with INSERT exactly when its read found no bucket  *)
(* for the key and with UPDATE exactly when it found one: the test         *)
(* new_num_validators == 1 is true exactly for the merges whose read found *)
(* no bucket, as every stored bucket has num_validators >= 1.              *)
(***************************************************************************)
C18_InsertIffAbsent ==
    /\ [](\A r \in Requests :
             pc[r] = "write"
             => /\ Statement(r) = "INSERT" <=> local[r].entry = {}
                /\ Statement(r) = "UPDATE" <=> local[r].entry # {}
                /\ local[r].new_num_validators = 1 <=> local[r].entry = {})
    /\ [](\A k \in Keys : \A e \in Bucket(k) : e.num_validators >= 1)
    /\ [][\A r \in Requests :
             MergeWritten(r)
             => IF local[r].entry = {} THEN Inserted(RowToWrite(r))
                ELSE Updated(RowToWrite(r))]_vars

C18_Witness ==
    \E a, b \in Requests :
        /\ pc[a] = "write" /\ local[a].entry # {} /\ Statement(a) = "UPDATE"
        /\ pc[b] = "write" /\ local[b].entry = {} /\ Statement(b) = "INSERT"
        /\ hist[a].merges = 1 /\ hist[b].merges = 1

\* The signature of validator v over the interval claim of key k.
SignatureFor(v, k) == Sign(v, get_message_digest(k))

\* The stored interval rows of validator v for key k that carry v's signature.
VerifiedRows(v, k) ==
    SumCopies({row \in BagToSet(price_interval_attestations) :
                  /\ KeyOf(row) = k
                  /\ row.validator_public_key = ToHexString(PublicKeyOf(v))
                  /\ row.signature = ToHexString(SignatureFor(v, k))},
              price_interval_attestations)

RECURSIVE SumOver(_, _, _)
\* The group sum of c[v] copies of the signature of each validator v in vs.
SumOver(c, vs, k) ==
    IF vs = {} THEN Infinity
    ELSE LET v == CHOOSE x \in vs : TRUE
         IN  PointAdd((c[v] * SignatureFor(v, k)) % Q, SumOver(c, vs \ {v}, k))

RECURSIVE Total(_, _)
Total(c, vs) ==
    IF vs = {} THEN 0
    ELSE LET v == CHOOSE x \in vs : TRUE IN c[v] + Total(c, vs \ {v})

\* The ways of taking n signatures from the verified claims stored for key k.
Contributions(n, k) ==
    {c \in [Validators -> 0 .. n] :
        /\ Total(c, Validators) = n
        /\ \A v \in Validators : c[v] <= VerifiedRows(v, k)}

(***************************************************************************)
(* C19.  In every reachable state, under every interleaving of merges, the *)
(* count and the aggregate of each stored bucket agree: the                *)
(* aggregate_signature is the group sum of exactly num_validators          *)
(* signatures, each of a verified interval claim stored for the bucket's   *)
(* key.  A lost update drops a contribution from both or from neither.     *)
(***************************************************************************)
C19_CountMatchesAggregate ==
    \A k \in Keys : \A e \in Bucket(k) :
        /\ e.num_validators >= 1
        /\ IsHexString(e.aggregate_signature)
        /\ \E c \in Contributions(e.num_validators, k) :
              HexBytes(e.aggregate_signature) = Serialize(SumOver(c, Validators, k))

C19_Witness ==
    \E k \in Keys : \E e \in Bucket(k) :
        /\ overlapped[k]
        /\ e.num_validators = 2
        /\ merged[k].count = 3
        /\ VerifiedRows("A", k) >= 1 /\ VerifiedRows("B", k) >= 1
        /\ \A r \in Requests : pc[r] = "done"

\* The number of interval-attestation rows stored with key k.
IntervalRows(k) ==
    SumCopies({row \in BagToSet(price_interval_attestations) : KeyOf(row) = k},
              price_interval_attestations)

(***************************************************************************)
(* C20.  In every reachable state, after storage failures and under        *)
(* concurrent submissions too, the num_validators of the bucket of a key   *)
(* is at most the number of interval-attestation rows stored with the same *)
(* (value, slot_number, interval_size): the row of a claim is inserted     *)
(* before its merge begins.                                                *)
(***************************************************************************)
C20_CountAtMostRows ==
    \A k \in Keys : \A e \in Bucket(k) : e.num_validators <= IntervalRows(k)

C20_Witness ==
    \E k \in Keys : \E e \in Bucket(k) :
        /\ e.num_validators = 2
        /\ IntervalRows(k) = 4
        /\ overlapped[k]
        /\ \E r \in Requests : hist[r].err = "StorageFailure" /\ k \in hist[r].touched
        /\ \A r \in Requests : pc[r] = "done"

====
